---- MODULE Spec2Model ----
(***************************************************************************)
(* Think-on-Graph reasoning over a partitioned knowledge graph.            *)
(*                                                                         *)
(* The module models                                                       *)
(*   - the Neo4j connector (neo4j_connector.py, core/neo4j_db.py): a       *)
(*     shared property graph whose nodes and edges carry a grag_id, and    *)
(*     the neighbour query scoped by the connector's grag_id;              *)
(*   - the two beam-search engines, ToGReasoning (tog_reasoning.py) and    *)
(*     ToGService (services/query_tog_service.py), as one state machine    *)
(*     whose program counter follows reason() and the functions it calls.  *)
(*                                                                         *)
(* The language model, the dense retriever and the graph store are         *)
(* external: every response they can give is a nondeterministic choice.    *)
(***************************************************************************)
EXTENDS Integers, Sequences, FiniteSets, TLC

(***************************************************************************)
(* Bounds of the model                                                     *)
(***************************************************************************)
\* largest max_depth given to the constructor or to a call
MaxDepth == 2
\* largest beam width given to the constructor or to a call
MaxWidth == 2
\* largest number of comma-separated fields in a language-model response
MaxFields == 2
\* largest number of edges of a graph drawn for the connector queries
MaxEdges == 2
\* largest traversal depth asked of get_entity_neighbors
MaxHops == 2
\* largest number of neighbour queries that fail during one reason() call
MaxFailures == 1

(***************************************************************************)
(* Text.  A TLA+ string has no characters to look at, so every text the    *)
(* model uses is given with its characters; lower(), "in" and CONTAINS are *)
(* computed on the characters.                                             *)
(***************************************************************************)
Chars(s) ==
    CASE s = ""     -> << >>
      [] s = "A"    -> <<"A">>
      [] s = "z"    -> <<"z">>
      [] s = "AB"   -> <<"A", "B">>
      [] s = "B"    -> <<"B">>
      [] s = "C"    -> <<"C">>
      [] s = "D"    -> <<"D">>
      [] s = "Z"    -> <<"Z">>
      [] s = "Yes"  -> <<"Y", "e", "s">>
      [] s = "YES." -> <<"Y", "E", "S", ".">>
      [] s = "No"   -> <<"N", "o">>
      [] s = "eyes" -> <<"e", "y", "e", "s">>
      [] OTHER      -> <<s>>

LowerChar(c) ==
    CASE c = "A" -> "a" [] c = "B" -> "b" [] c = "C" -> "c" [] c = "D" -> "d"
      [] c = "E" -> "e" [] c = "N" -> "n" [] c = "S" -> "s" [] c = "Y" -> "y"
      [] c = "Z" -> "z" [] OTHER -> c

\* str.lower() / toLower(): the characters of s, lower-cased
LowerChars(s) == [i \in 1..Len(Chars(s)) |-> LowerChar(Chars(s)[i])]

\* x in y on character sequences: x occurs as a contiguous run of y
IsSubSeq(x, y) ==
    \E off \in 0..(Len(y) - Len(x)) : \A i \in 1..Len(x) : y[off + i] = x[i]

\* Cypher: toLower(name) CONTAINS toLower(keyword)
ContainsIgnoreCase(name, keyword) == IsSubSeq(LowerChars(keyword), LowerChars(name))

(***************************************************************************)
(* The shared property graph                                               *)
(***************************************************************************)
\* the knowledge bases (grag_id values) stored in the one graph
Partitions == {"kb1", "kb2"}
\* Neo4jConnector(grag_id=None)
NoGrag == "None"
\* a node property name that is not a str (Neo4j stores integers as well)
NonStrName == "#7"
RelTypes == {"part_of", "located_in"}

Node(name, g) == [name |-> name, grag_id |-> g]
Edge(s, rel, d, g) == [src |-> s, rel |-> rel, dst |-> d, grag_id |-> g]
Graph(nodes, edges) ==
    [nodes |-> nodes \cup {e.src : e \in edges} \cup {e.dst : e \in edges},
     edges |-> edges]

Ends(e) == {e.src, e.dst}
Other(e, n) == IF e.src = n THEN e.dst ELSE e.src

\* the node a trail has reached
TrailEnd(t, start) == IF Len(t) = 0 THEN start ELSE t[Len(t)].node

\* MATCH (n)-[r*k]-(m): the undirected trails of exactly k relationships
\* from start; Cypher never repeats a relationship within one match
RECURSIVE TrailsN(_, _, _)
TrailsN(edges, start, k) ==
    IF k = 0 THEN {<< >>}
    ELSE UNION { { Append(t, [edge |-> e, node |-> Other(e, TrailEnd(t, start))]) :
                     e \in {x \in edges : /\ TrailEnd(t, start) \in Ends(x)
                                          /\ \A i \in 1..Len(t) : t[i].edge # x} } :
                 t \in TrailsN(edges, start, k - 1) }

\* (n)-[r*1..depth]-(m)
Trails(edges, start, depth) == UNION { TrailsN(edges, start, k) : k \in 1..depth }


(***************************************************************************)
(* State                                                                   *)
(***************************************************************************)
VARIABLES
    store,            \* the shared graph: [nodes, edges]
    grag_id,          \* Neo4jConnector.grag_id of the connector in use
    q,                \* the last connector query and what it returned
    impl,             \* which engine runs: "ToGReasoning" or "ToGService"
    retriever,        \* self.retriever is not None
    self_beam_width,  \* ToGReasoning.beam_width / ToGService.max_width
    self_max_depth,   \* ToGReasoning.max_depth / ToGService.max_depth
    arg_max_depth,    \* reason(max_depth=...), NoneInt when not given
    arg_max_width,    \* reason(max_width=...), NoneInt when not given
    pc,               \* position inside reason() and its callees
    depth,            \* the loop variable of reason()
    depth_limit,      \* reason()'s local depth_limit
    beam_width,       \* reason()'s local beam_width
    current_paths,    \* reason()'s local current_paths
    frame,            \* locals of the running _beam_search_iteration
    result,           \* the dict reason() returned (no keys before it returns)
    clock,            \* time.time(): one tick per external call
    hist,             \* observations of the run (history, not program state)
    link,             \* the last stand-alone call of entity_linking or of
                      \* _extract_topic_entities, and what it returned
    verdict,          \* the last stand-alone call of _evaluate_sufficiency
    stub,             \* the stubbed language model, retriever and store as the
                      \* running call meets them (not fixed: they answer freely)
    peer              \* the second reason() call of a concurrent pair

connVars == <<store, grag_id, q>>
engineVars == <<impl, retriever, self_beam_width, self_max_depth,
                arg_max_depth, arg_max_width>>
runVars == <<pc, depth, depth_limit, beam_width, current_paths, frame,
             result, clock, hist>>
callVars == <<link, verdict>>
parVars == <<stub, peer>>
vars == <<store, grag_id, q, impl, retriever, self_beam_width, self_max_depth,
          arg_max_depth, arg_max_width, pc, depth, depth_limit, beam_width,
          current_paths, frame, result, clock, hist, link, verdict, stub, peer>>

\* Optional[int] = None
NoneInt == -1
\* a null source / relation of a hop, a missing value
Null == "<null>"

(***************************************************************************)
(* Sequences as Python lists                                               *)
(***************************************************************************)
Min(a, b) == IF a <= b THEN a ELSE b
Range(s) == {s[i] : i \in 1..Len(s)}

\* s[:k] for k >= 0
Take(s, k) == SubSeq(s, 1, Min(Len(s), k))

\* list(dict.fromkeys(s)): first occurrences, order kept
RECURSIVE Dedupe(_)
Dedupe(s) ==
    IF Len(s) = 0 THEN << >>
    ELSE LET init == Dedupe(SubSeq(s, 1, Len(s) - 1))
             last == s[Len(s)]
         IN IF last \in Range(init) THEN init ELSE Append(init, last)

\* every list that holds each element of the set S once
Orderings(S) ==
    {s \in [1..Cardinality(S) -> S] : \A i, j \in 1..Cardinality(S) : s[i] = s[j] => i = j}

\* the lists a query can return for a row set under LIMIT lim: the rows come
\* in an order the database chooses
LimitedOrderings(S, lim) ==
    IF Cardinality(S) <= lim THEN Orderings(S)
    ELSE UNION { Orderings(T) : T \in {U \in SUBSET S : Cardinality(U) = lim} }

(***************************************************************************)
(* Neo4jConnector                                                          *)
(***************************************************************************)
\* LIMIT 100 of get_entity_neighbors
NeighborLimit == 100

\* _get_params_with_grag_id: grag_id is added only when the connector has one
GetParamsWithGragId(grag, params) ==
    IF grag # NoGrag THEN [grag_id |-> grag] @@ params ELSE params

\* the matches of  MATCH path = (n)-[r*1..depth]-(m)
\*                 WHERE n.name = $entity_name AND n.grag_id = $grag_id
\*                   AND m.grag_id = $grag_id
\*                   AND all(rel in r WHERE rel.grag_id = $grag_id)
NeighborPattern(g, params, hops) ==
    { [n |-> n, r |-> t, m |-> TrailEnd(t, n)] :
        <<n, t>> \in UNION { {<<n, t>> : t \in Trails(g.edges, n, hops)} :
                             n \in {x \in g.nodes : x.name = params.entity_name} } }

NeighborMatchesNoTargetFilter(g, params, hops) ==
    { mt \in NeighborPattern(g, params, hops) :
        /\ mt.n.grag_id = params.grag_id
        /\ \A i \in 1..Len(mt.r) : mt.r[i].edge.grag_id = params.grag_id }

\* no grag_id condition at all
NeighborMatchesUnscoped(g, params, hops) == NeighborPattern(g, params, hops)

NeighborMatches(g, params, hops) ==
    { mt \in NeighborPattern(g, params, hops) :
        /\ mt.n.grag_id = params.grag_id
        /\ mt.m.grag_id = params.grag_id
        /\ \A i \in 1..Len(mt.r) : mt.r[i].edge.grag_id = params.grag_id }

\* RETURN DISTINCT n.name, type(r[0]), m.name
NeighborRow(mt) ==
    [source_entity |-> mt.n.name, relation |-> mt.r[1].edge.rel,
     target_entity |-> mt.m.name]

\* execute_query: a query that raises (here: $grag_id not supplied, or the
\* database failing, ok = FALSE) is logged and yields the empty list
NeighborMatchesRun(g, params, hops, ok) ==
    IF ok /\ "grag_id" \in DOMAIN params THEN NeighborMatches(g, params, hops) ELSE {}

\* get_entity_neighbors(entity_name, depth): the lists it can return
GetEntityNeighbors(g, grag, entity_name, hops, ok) ==
    LimitedOrderings(
        {NeighborRow(mt) :
            mt \in NeighborMatchesRun(g, GetParamsWithGragId(grag, [entity_name |-> entity_name]),
                                      hops, ok)},
        NeighborLimit)


(***************************************************************************)
(* Connector queries on an arbitrary shared graph                          *)
(***************************************************************************)
NoQuery == [asked |-> FALSE, entity_name |-> Null, depth |-> 0, ok |-> TRUE, rows |-> << >>]

\* no stand-alone call of the linker or of the oracle was made
NoLink == [kind |-> "none"]
NoVerdict == [called |-> FALSE]
IdleCalls == link = NoLink /\ verdict = NoVerdict

\* the collaborators are not stubbed, and there is no second call
NoStub == [fixed |-> FALSE]
NoPeer == [phase |-> "off"]
Unpaired == stub = NoStub /\ peer = NoPeer

\* the values of the engine's variables while no reason() call is modelled
IdleRun ==
    /\ pc = "idle" /\ depth = 0 /\ depth_limit = 0 /\ beam_width = 0
    /\ current_paths = << >> /\ frame = << >> /\ result = << >> /\ clock = 0
    /\ hist = << >>
IdleEngine ==
    /\ impl = "ToGReasoning" /\ retriever = FALSE
    /\ self_beam_width = 0 /\ self_max_depth = 0
    /\ arg_max_depth = NoneInt /\ arg_max_width = NoneInt

ConnNames == {"A", "B"}
ConnNodes == {Node(n, g) : n \in ConnNames, g \in Partitions}
\* every edge between two nodes, whatever the partitions of its ends and its own
ConnEdges == {Edge(s, "part_of", d, g) : s \in ConnNodes, d \in ConnNodes, g \in Partitions}
\* the subsets of S with at most k elements
RECURSIVE SubsetsUpTo(_, _)
SubsetsUpTo(S, k) ==
    IF k = 0 THEN {{}}
    ELSE LET smaller == SubsetsUpTo(S, k - 1)
         IN smaller \cup {T \cup {e} : T \in smaller, e \in S}
ConnGraphs == {Graph({}, E) : E \in SubsetsUpTo(ConnEdges, MaxEdges)}

InitConn ==
    /\ store \in ConnGraphs
    /\ grag_id \in Partitions \cup {NoGrag}
    /\ q = NoQuery
    /\ IdleEngine /\ IdleRun /\ IdleCalls /\ Unpaired

\* one call of connector.get_entity_neighbors(entity_name, depth)
ConnQuery(entity_name, hops, ok) ==
    /\ \E rows \in GetEntityNeighbors(store, grag_id, entity_name, hops, ok) :
          q' = [asked |-> TRUE, entity_name |-> entity_name, depth |-> hops,
                ok |-> ok, rows |-> rows]
    /\ UNCHANGED <<store, grag_id>>
    /\ UNCHANGED engineVars /\ UNCHANGED runVars /\ UNCHANGED callVars
    /\ UNCHANGED parVars

NextConn ==
    \E entity_name \in ConnNames, hops \in 1..MaxHops, ok \in BOOLEAN :
        ConnQuery(entity_name, hops, ok)

SpecConn == InitConn /\ [][NextConn]_vars

\* C4: a connector bound to a partition returns only rows whose source node,
\* target node and first relationship exist in that partition, and returns
\* no row at all for a name that no node of its partition carries
C4_PartitionIsolation ==
    (q.asked /\ grag_id \in Partitions) =>
        /\ (~ \E n \in store.nodes : n.name = q.entity_name /\ n.grag_id = grag_id)
              => q.rows = << >>
        /\ \A i \in 1..Len(q.rows) :
              \E n \in store.nodes, m \in store.nodes, e \in store.edges :
                 /\ n.grag_id = grag_id /\ n.name = q.rows[i].source_entity
                 /\ m.grag_id = grag_id /\ m.name = q.rows[i].target_entity
                 /\ e.grag_id = grag_id /\ e.rel = q.rows[i].relation
                 /\ n \in Ends(e)

\* the queried name exists only in the other partition, where it has an edge
\* into the connector's partition that is tagged with the connector's grag_id
C4_Witness ==
    /\ q.asked /\ q.ok /\ grag_id = "kb1" /\ q.entity_name = "A"
    /\ Node("A", "kb1") \notin store.nodes
    /\ Edge(Node("A", "kb2"), "part_of", Node("B", "kb1"), "kb1") \in store.edges
    /\ q.rows = << >>


(***************************************************************************)
(* The engines: ToGReasoning and ToGService.  Pure parts first.            *)
(***************************************************************************)
\* Python truthiness of a name read from a row: None and "" are dropped
Truthy(x) == x # Null /\ x # ""
\* isinstance(x, str)
IsStr(x) == x # NonStrName /\ x # Null

\* [e.strip() for e in response.split(",") if e.strip()] on the fields of a
\* response; the empty text has the one field ""
ParseList(fields) == SelectSeq(fields, LAMBDA f : f # "")

\* every response text of at most MaxFields fields over a vocabulary; a failed
\* call (_call_llm / chat_with_siliconflow return "") is the text <<"">>
Responses(vocab) == UNION { [1..n -> vocab \cup {""}] : n \in 1..MaxFields }

\* a name the language model makes up
Hallucinated == "Zed"

\* self.entity_linking_threshold (constructor default)
entity_linking_threshold == 15
\* the names in the dense index and the distances it reports
IndexNames == {"A", "B"}
Distances == {entity_linking_threshold - 5, entity_linking_threshold + 5}
NoHit == [found |-> FALSE, name |-> Null, score |-> 0]
Hits == {NoHit} \cup {[found |-> TRUE, name |-> n, score |-> d] : n \in IndexNames, d \in Distances}

\* entity_linking(retriever_obj, entities, threshold): hits[i] is what
\* retriever_obj.retrieve(entities[i]) gave
RECURSIVE entity_linking(_, _, _)
entity_linking(hits, entities, threshold) ==
    IF Len(entities) = 0 THEN << >>
    ELSE LET n == Len(entities)
             before == entity_linking(SubSeq(hits, 1, n - 1), SubSeq(entities, 1, n - 1), threshold)
         IN IF hits[n].found THEN Append(before, hits[n].name) ELSE before

\* search_entities_exact(entity): the names it can return
SearchEntitiesExact(g, grag, entity, ok) ==
    IF ok /\ grag # NoGrag
    THEN {n.name : n \in {x \in g.nodes : /\ IsStr(x.name) /\ Truthy(x.name)
                                            /\ x.name = entity /\ x.grag_id = grag}}
    ELSE {}

\* search_entities_fuzzy(keyword, limit=1): the names it can return first
SearchEntitiesFuzzy(g, grag, keyword, ok) ==
    IF ok /\ grag # NoGrag
    THEN {n.name : n \in {x \in g.nodes : /\ IsStr(x.name) /\ Truthy(x.name)
                                            /\ ContainsIgnoreCase(x.name, keyword)
                                            /\ x.grag_id = grag}}
    ELSE {}

\* what one round of the loop of _fallback_entity_matching looked up and
\* appended
Round(entity, exact_ok, exact, fuzzy_called, fuzzy, appended) ==
    [entity |-> entity, exact_ok |-> exact_ok, exact_found |-> exact # {},
     fuzzy_called |-> fuzzy_called, fuzzy_found |-> fuzzy_called /\ fuzzy # {},
     appended |-> appended]

\* the fuzzy search is made first and the exact search only when it finds nothing
FallbackRoundFuzzyFirst(g, grag, entity) ==
    UNION { LET exact == SearchEntitiesExact(g, grag, entity, okExact)
                fuzzy == SearchEntitiesFuzzy(g, grag, entity, okFuzzy)
            IN { Round(entity, okExact, exact, TRUE, fuzzy, name) :
                   name \in IF fuzzy # {} THEN fuzzy
                            ELSE IF exact # {} THEN exact
                            ELSE {entity} } : okExact \in BOOLEAN, okFuzzy \in BOOLEAN }

\* one round of the loop of _fallback_entity_matching: exact_matches[0], else
\* fuzzy_matches[0] (limit=1: the one name the database picks), else the entity
FallbackRound(g, grag, entity) ==
    UNION { LET exact == SearchEntitiesExact(g, grag, entity, okExact)
                fuzzy == SearchEntitiesFuzzy(g, grag, entity, okFuzzy)
            IN { Round(entity, okExact, exact, exact = {}, fuzzy, name) :
                   name \in IF exact # {} THEN exact
                            ELSE IF fuzzy # {} THEN fuzzy
                            ELSE {entity} } : okExact \in BOOLEAN, okFuzzy \in BOOLEAN }

\* the names one round can append
FallbackMatch(g, grag, entity) == {r.appended : r \in FallbackRound(g, grag, entity)}

\* the rounds of _fallback_entity_matching(raw_entities), one per entity
FallbackRounds(g, grag, raw) ==
    {rs \in [1..Len(raw) -> UNION {FallbackRound(g, grag, raw[i]) : i \in 1..Len(raw)}] :
        \A i \in 1..Len(raw) : rs[i] \in FallbackRound(g, grag, raw[i])}

\* _fallback_entity_matching(raw_entities) before de-duplication: the lists
\* matched_entities can be
FallbackMatchings(g, grag, raw) ==
    {m \in [1..Len(raw) -> UNION {FallbackMatch(g, grag, raw[i]) : i \in 1..Len(raw)}] :
        \A i \in 1..Len(raw) : m[i] \in FallbackMatch(g, grag, raw[i])}

\* list(dict.fromkeys(entities))[:self.beam_width]
TopicEntitiesKeepDuplicates(entities, k) == Take(entities, k)
TopicEntities(entities, k) == Take(Dedupe(entities), k)

\* whether entity_linking returns (TRUE) or raises (FALSE): it is called when
\* there is a retriever, and only retriever_obj.retrieve(ent) can raise
LinkingOutcomes(has_retriever, raw_entities) ==
    {b \in BOOLEAN : IF has_retriever THEN b \/ raw_entities # << >> ELSE ~ b}

\* [[{"source": None, "relation": None, "target": e}] for e in topic_entities]
Hop(s, r, t) == [source |-> s, relation |-> r, target |-> t]
SeedPaths(topic_entities) ==
    [i \in 1..Len(topic_entities) |-> <<Hop(Null, Null, topic_entities[i])>>]

\* the tails of the non-empty paths
\* (the variant reads path[0]["target"])
TailEntitiesFromSeed(paths) ==
    LET nonEmpty == SelectSeq(paths, LAMBDA p : Len(p) > 0)
    IN [i \in 1..Len(nonEmpty) |-> nonEmpty[i][1].target]
TailEntities(paths) ==
    LET nonEmpty == SelectSeq(paths, LAMBDA p : Len(p) > 0)
    IN [i \in 1..Len(nonEmpty) |-> nonEmpty[i][Len(nonEmpty[i])].target]

\* ToGReasoning seeds when no path has a tail, ToGService when the beam is empty
\* (the variant seeds in every iteration)
SeedNeededEachIteration(engine, paths) == TRUE
\* (the variant: ToGReasoning does not look at the beam it was given)
SeedNeededReasoningAlways(engine, paths) ==
    IF engine = "ToGReasoning" THEN TRUE ELSE paths = << >>
SeedNeeded(engine, paths) ==
    IF engine = "ToGReasoning" THEN TailEntities(paths) = << >> ELSE paths = << >>

\* the pruners skip the language model when the candidates already fit
FitsWithoutPruningStrict(candidates, k) == Len(candidates) < k
FitsWithoutPruning(candidates, k) == Len(candidates) <= k

\* selected = candidates, or the parsed response cut to k
Select(candidates, k, response) ==
    IF FitsWithoutPruning(candidates, k) THEN candidates
    ELSE Take(ParseList(response), k)

\* ", ".join(target_candidates[:20]) needs every item to be a str
EntityPromptCap == 20
JoinRaises(candidates) == \E i \in 1..Len(Take(candidates, EntityPromptCap)) : ~ IsStr(candidates[i])

\* entity_relations[entity] = relations on a dict kept as a list of items
DictSet(items, key, value) ==
    IF \E i \in 1..Len(items) : items[i].entity = key
    THEN [i \in 1..Len(items) |-> IF items[i].entity = key
                                   THEN [entity |-> key, relations |-> value]
                                   ELSE items[i]]
    ELSE Append(items, [entity |-> key, relations |-> value])

\* for source_entity, relations in entity_relations.items(): for relation in relations
RECURSIVE Pairs(_)
Pairs(items) ==
    IF Len(items) = 0 THEN << >>
    ELSE LET it == items[Len(items)]
         IN Pairs(SubSeq(items, 1, Len(items) - 1)) \o
            [k \in 1..Len(it.relations) |-> [source |-> it.entity, relation |-> it.relations[k]]]

\* the paths one exploration result adds to one path
\* (the variant does not compare result["source"] with the tail)
ExtendByAnyTail(path, res) ==
    [t \in 1..Len(res.targets) |-> Append(path, Hop(res.source, res.relation, res.targets[t]))]
ExtendBy(path, res) ==
    IF res.source = path[Len(path)].target
    THEN [t \in 1..Len(res.targets) |-> Append(path, Hop(res.source, res.relation, res.targets[t]))]
    ELSE << >>

RECURSIVE ExtendPath(_, _)
ExtendPath(path, results) ==
    IF Len(results) = 0 THEN << >>
    ELSE ExtendPath(path, SubSeq(results, 1, Len(results) - 1)) \o
         ExtendBy(path, results[Len(results)])

\* new_paths of _beam_search_iteration, in generation order
RECURSIVE NewPaths(_, _)
NewPaths(paths, results) ==
    IF Len(paths) = 0 THEN << >>
    ELSE NewPaths(SubSeq(paths, 1, Len(paths) - 1), results) \o
         ExtendPath(paths[Len(paths)], results)

\* return new_paths[:self.beam_width] if new_paths else current_paths
KeepAllPaths(new_paths, paths, k) == IF new_paths # << >> THEN new_paths ELSE paths
\* (the variant adds the new paths to the list it was given)
BeamSearchReturnAccumulated(new_paths, paths, k) == Take(paths \o new_paths, k)
\* (the variant keeps new_paths[-self.beam_width:])
BeamSearchReturnLast(new_paths, paths, k) ==
    IF new_paths # << >>
    THEN SubSeq(new_paths, Len(new_paths) - Min(Len(new_paths), k) + 1, Len(new_paths))
    ELSE paths
BeamSearchReturn(new_paths, paths, k) ==
    IF new_paths # << >> THEN Take(new_paths, k) ELSE paths

\* "yes" in response.lower()
SaysYesCaseSensitive(response) == IsSubSeq(<<"y", "e", "s">>, Chars(response))
SaysYes(response) == IsSubSeq(<<"y", "e", "s">>, LowerChars(response))

\* not paths or not any(paths)
NothingToJudgeEmptyOnly(paths) == paths = << >>
NothingToJudge(paths) == paths = << >> \/ \A i \in 1..Len(paths) : paths[i] = << >>


(***************************************************************************)
(* One reason() call                                                       *)
(***************************************************************************)
K1(n) == Node(n, "kb1")
K2(n) == Node(n, "kb2")

\* no node and no edge at all
EmptyGraph == Graph({}, {})
\* A --[part_of]--> B --[located_in]--> C in kb1, and unrelated data in kb2
ChainGraph ==
    Graph({}, {Edge(K1("A"), "part_of", K1("B"), "kb1"),
               Edge(K1("B"), "located_in", K1("C"), "kb1"),
               Edge(K2("B"), "part_of", K2("D"), "kb2")})
\* A with two relation types and two part_of targets
StarGraph ==
    Graph({}, {Edge(K1("A"), "part_of", K1("B"), "kb1"),
               Edge(K1("A"), "part_of", K1("C"), "kb1"),
               Edge(K1("A"), "located_in", K1("C"), "kb1")})
\* a neighbour whose name property is an integer
OddGraph ==
    Graph({}, {Edge(K1("A"), "part_of", K1(NonStrName), "kb1"),
               Edge(K1("A"), "part_of", K1("B"), "kb1")})
\* Z lives in kb2 only; kb1 has no A, but an AB that contains it
ForeignGraph ==
    Graph({K1("AB")}, {Edge(K2("Z"), "part_of", K2("B"), "kb2"),
                       Edge(K2("Z"), "part_of", K1("C"), "kb1")})
SampleGraphs == {EmptyGraph, ChainGraph, StarGraph, OddGraph, ForeignGraph}

\* the entity names the language model can extract from the question
Mentions == {"A", "z"}
\* the texts the language model can give to the yes/no question
OracleResponses == {"Yes", "No", "", "YES.", "eyes"}
\* the texts the language model can give as the answer
AnswerTexts == {"", "1. answer"}
\* answer of reason() when nothing was found (tog_reasoning.py line 435)
InsufficientAnswer == "insufficient information"

NoFrame ==
    [paths |-> << >>, tails |-> << >>, i |-> 0, entity_relations |-> << >>,
     pairs |-> << >>, j |-> 0, exploration_results |-> << >>]

\* nothing_parsed: the language model was asked and its response has no field
\* left after split(",") and strip() (the empty text of a failed call, ",")
NoPrune ==
    [kind |-> "none", candidates |-> << >>, k |-> 0, selected |-> << >>, llm |-> 0,
     nothing_parsed |-> FALSE]

NoHist ==
    [expansions |-> 0,          \* calls of _beam_search_iteration
     extractions |-> 0,         \* calls of _extract_topic_entities
     unmatched |-> FALSE,       \* mentions were extracted and none of them has
                                \* a match in the dense index or in the graph
     generated |-> 0,           \* len(new_paths) of the last iteration
     productive |-> 0,          \* iterations whose new_paths was not empty
     trace |-> << >>,           \* the beams the iterations returned, kept when
                                \* the collaborators are stubbed (runs are compared)
     llm_calls |-> 0,           \* language-model calls
     neighbor_calls |-> 0,      \* get_entity_neighbors calls
     failures |-> 0,            \* graph queries that failed
     prune |-> NoPrune,         \* the last run of a pruner
     oracle_calls |-> 0,        \* calls of _evaluate_sufficiency
     sufficient_at |-> 0,       \* iteration whose beam was judged sufficient
     sufficient_beam |-> << >>,
     stalled_at |-> 0,          \* first iteration that produced no new path
     stalled_beam |-> << >>,    \* the beam that iteration started from
     synth_calls |-> 0,         \* calls of _generate_answer
     synth_beam |-> << >>,
     raised |-> "None"]         \* the exception raised inside reason()

Init ==
    /\ store \in SampleGraphs
    /\ grag_id = "kb1"
    /\ q = NoQuery
    /\ impl \in {"ToGReasoning", "ToGService"}
    /\ retriever \in BOOLEAN
    /\ self_beam_width \in 0..MaxWidth
    /\ self_max_depth \in 0..MaxDepth
    /\ IF impl = "ToGReasoning"
       THEN /\ arg_max_depth \in {NoneInt} \cup 0..MaxDepth
            /\ arg_max_width \in {NoneInt, 1}
            \* the constructor's depth is read only when the call gives none
            /\ IF arg_max_depth = NoneInt THEN self_max_depth = 1
                                          ELSE self_max_depth = MaxDepth
       ELSE arg_max_depth = NoneInt /\ arg_max_width = NoneInt
    /\ pc = "reason"
    /\ depth = 0 /\ depth_limit = 0 /\ beam_width = 0
    /\ current_paths = << >>
    /\ frame = NoFrame
    /\ result = << >>
    /\ clock = 0
    /\ hist = NoHist
    /\ IdleCalls /\ Unpaired

\* where control goes when an exception is raised inside reason(): the body
\* is wrapped in try / except Exception
NoHandler == "escaped"
ExceptionHandler == "except"

\* (the variant has no try / except around the body)
RaiseUncaught == pc' = NoHandler
Raise == pc' = ExceptionHandler

\* depth_limit = max_depth if max_depth is not None else self.max_depth
\* (ToGService.reason takes no arguments and reads self.max_depth)
DepthLimit == IF arg_max_depth # NoneInt THEN arg_max_depth ELSE self_max_depth
\* beam_width = max_width if max_width is not None else self.beam_width
CallBeamWidth == IF arg_max_width # NoneInt THEN arg_max_width ELSE self_beam_width

\* a graph query succeeds or fails (execute_query then returns [])
QueryOutcomes == IF hist.failures < MaxFailures THEN BOOLEAN ELSE {TRUE}

\* the width the exploration functions read: self.beam_width / self.max_width
Width == self_beam_width

\* What the collaborators can answer.  Not stubbed, the language model, the
\* retriever and the store answer anything they can; stubbed, each answer is
\* fixed by what is asked.
\* the order a stubbed store returns rows in, and the like
Stubbed(S) == IF stub.fixed THEN {CHOOSE x \in S : TRUE} ELSE S
\* the entity-extraction response
ExtractionResponses == IF stub.fixed THEN {stub.mentions} ELSE Responses(Mentions)
\* retriever_obj.retrieve(mention) of the stubbed index: A is indexed
StubHit(mention) ==
    IF mention = "A" THEN [found |-> TRUE, name |-> "A", score |-> entity_linking_threshold - 5]
    ELSE NoHit
LinkingChoices(raw_entities) ==
    IF stub.fixed THEN {retriever} ELSE LinkingOutcomes(retriever, raw_entities)
HitChoices(linkingWorks, raw_entities) ==
    IF ~ linkingWorks THEN {<< >>}
    ELSE IF stub.fixed THEN {[i \in 1..Len(raw_entities) |-> StubHit(raw_entities[i])]}
    ELSE [1..Len(raw_entities) -> Hits]
\* the response to a pruning prompt over candidates
PruneResponses(candidates) ==
    IF stub.fixed
    THEN {IF stub.select = "first" THEN <<candidates[1]>> ELSE <<"">>}
    ELSE Responses(Range(candidates) \cup {Hallucinated})
\* the response to the sufficiency prompt
OracleChoices == IF stub.fixed THEN {stub.oracle} ELSE OracleResponses
\* the response to the answer prompt
AnswerChoices == IF stub.fixed THEN {"1. answer"} ELSE AnswerTexts
\* whether a graph query succeeds
StoreOutcomes == IF stub.fixed THEN {TRUE} ELSE QueryOutcomes

\* self.beam_width after the first lines of reason(): the call's max_width
\* goes to the local beam_width (line 395), the field is never assigned
SelfBeamWidthOverridden(w, max_width) == IF max_width # NoneInt THEN max_width ELSE w
SelfBeamWidthAfterBegin(w, max_width) == w

\* reason(): lines up to the for loop
Begin ==
    /\ pc = "reason"
    /\ depth_limit' = DepthLimit
    /\ beam_width' = CallBeamWidth
    /\ self_beam_width' = SelfBeamWidthAfterBegin(self_beam_width, arg_max_width)
    /\ current_paths' = << >>
    /\ depth' = 0
    /\ pc' = "for"
    /\ UNCHANGED <<frame, result, clock, hist>>
    /\ UNCHANGED <<impl, retriever, self_max_depth, arg_max_depth, arg_max_width>>
    /\ UNCHANGED connVars /\ UNCHANGED callVars
    /\ UNCHANGED parVars

\* for depth in range(depth_limit)
RangeHasNextInclusive(d, limit) == d <= limit
RangeHasNext(d, limit) == d < limit

ForLoop ==
    /\ pc = "for"
    /\ IF RangeHasNext(depth, depth_limit)
       THEN /\ pc' = "bsi"
            /\ hist' = [hist EXCEPT !.expansions = @ + 1]
       ELSE /\ pc' = "answer"
            /\ hist' = hist
    /\ UNCHANGED <<depth, depth_limit, beam_width, current_paths, frame, result, clock>>
    /\ UNCHANGED connVars /\ UNCHANGED engineVars /\ UNCHANGED callVars
    /\ UNCHANGED parVars

\* _beam_search_iteration: the tails of the beam, or the decision to seed
BeamSearchStart ==
    /\ pc = "bsi"
    /\ IF SeedNeeded(impl, current_paths)
       THEN /\ pc' = "extract"
            /\ frame' = NoFrame
       ELSE /\ pc' = "relations"
            /\ frame' = [NoFrame EXCEPT !.paths = current_paths,
                                        !.tails = TailEntities(current_paths),
                                        !.i = 1]
    /\ UNCHANGED <<depth, depth_limit, beam_width, current_paths, result, clock, hist>>
    /\ UNCHANGED connVars /\ UNCHANGED engineVars /\ UNCHANGED callVars
    /\ UNCHANGED parVars

\* _extract_topic_entities, then the seeding of the beam
ExtractTopicEntities ==
    /\ pc = "extract"
    /\ \E response \in ExtractionResponses :
         LET raw_entities == ParseList(response) IN
         \* entity_linking runs when there is a retriever, and may raise
         \E linkingWorks \in LinkingChoices(raw_entities) :
         \E hits \in HitChoices(linkingWorks, raw_entities) :
         \E matched_entities \in
                IF linkingWorks
                THEN {entity_linking(hits, raw_entities, entity_linking_threshold)}
                ELSE Stubbed(FallbackMatchings(store, grag_id, raw_entities)) :
             LET topic_entities == TopicEntities(matched_entities, Width) IN
             /\ frame' = [NoFrame EXCEPT !.paths = SeedPaths(topic_entities),
                                         !.tails = topic_entities,
                                         !.i = 1]
             /\ hist' = [hist EXCEPT
                           !.extractions = @ + 1,
                           !.llm_calls = @ + 1,
                           !.unmatched = /\ raw_entities # << >>
                                         /\ \A i \in 1..Len(hits) : ~ hits[i].found
                                         /\ \A i \in 1..Len(raw_entities) :
                                               FallbackMatch(store, grag_id, raw_entities[i])
                                                  = {raw_entities[i]}]
    /\ clock' = clock + 1
    /\ pc' = "relations"
    /\ UNCHANGED <<depth, depth_limit, beam_width, current_paths, result>>
    /\ UNCHANGED connVars /\ UNCHANGED engineVars /\ UNCHANGED callVars
    /\ UNCHANGED parVars

\* _explore_relations: one round of the loop over the tail entities
ExploreRelations ==
    /\ pc = "relations"
    /\ frame.i <= Len(frame.tails)
    /\ LET entity == frame.tails[frame.i] IN
       \E ok \in StoreOutcomes :
       \E neighbors \in Stubbed(GetEntityNeighbors(store, grag_id, entity, 1, ok)) :
       \* list(set(...)): the relation types in an order the hash decides
       \E all_relations \in Stubbed(Orderings({neighbors[n].relation : n \in
                               {x \in 1..Len(neighbors) : Truthy(neighbors[x].relation)}})) :
       \E response \in IF all_relations = << >> \/ FitsWithoutPruning(all_relations, Width)
                       THEN {<<"">>}
                       ELSE PruneResponses(all_relations) :
          LET asked == ~ (all_relations = << >> \/ FitsWithoutPruning(all_relations, Width))
              selected_relations ==
                  IF all_relations = << >> THEN << >>
                  ELSE Select(all_relations, Width, response)
          IN /\ frame' = [frame EXCEPT
                            !.entity_relations = DictSet(@, entity, selected_relations),
                            !.i = @ + 1]
             /\ hist' = [hist EXCEPT
                            !.neighbor_calls = @ + 1,
                            !.failures = @ + (IF ok THEN 0 ELSE 1),
                            !.llm_calls = @ + (IF asked THEN 1 ELSE 0),
                            !.prune = [kind |-> "relation", candidates |-> all_relations,
                                       k |-> Width, selected |-> selected_relations,
                                       llm |-> IF asked THEN 1 ELSE 0,
                                       nothing_parsed |-> asked /\ ParseList(response) = << >>]]
    /\ clock' = clock + 1
    /\ UNCHANGED <<pc, depth, depth_limit, beam_width, current_paths, result>>
    /\ UNCHANGED connVars /\ UNCHANGED engineVars /\ UNCHANGED callVars
    /\ UNCHANGED parVars

\* _explore_relations returns; _explore_entities starts
ExploreRelationsReturn ==
    /\ pc = "relations"
    /\ frame.i > Len(frame.tails)
    /\ frame' = [frame EXCEPT !.pairs = Pairs(frame.entity_relations), !.j = 1]
    /\ pc' = "entities"
    /\ UNCHANGED <<depth, depth_limit, beam_width, current_paths, result, clock, hist>>
    /\ UNCHANGED connVars /\ UNCHANGED engineVars /\ UNCHANGED callVars
    /\ UNCHANGED parVars

\* _explore_entities: one round of the loops over (source entity, relation)
ExploreEntities ==
    /\ pc = "entities"
    /\ frame.j <= Len(frame.pairs)
    /\ LET source_entity == frame.pairs[frame.j].source
           relation == frame.pairs[frame.j].relation
       IN
       \E ok \in StoreOutcomes :
       \E neighbors \in Stubbed(GetEntityNeighbors(store, grag_id, source_entity, 1, ok)) :
          LET matching == SelectSeq(neighbors,
                              LAMBDA n : n.relation = relation /\ Truthy(n.target_entity))
              target_candidates == Dedupe([n \in 1..Len(matching) |-> matching[n].target_entity])
              asked == target_candidates # << >> /\ ~ FitsWithoutPruning(target_candidates, Width)
          IN
          IF asked /\ JoinRaises(target_candidates)
          THEN /\ Raise
               /\ hist' = [hist EXCEPT !.neighbor_calls = @ + 1,
                            !.failures = @ + (IF ok THEN 0 ELSE 1), !.raised = "TypeError"]
               /\ frame' = frame
          ELSE
          \E response \in IF asked THEN PruneResponses(target_candidates)
                          ELSE {<<"">>} :
             LET selected_targets == Select(target_candidates, Width, response) IN
             /\ frame' = [frame EXCEPT
                            !.exploration_results =
                                IF target_candidates = << >> THEN @
                                ELSE Append(@, [source |-> source_entity, relation |-> relation,
                                                targets |-> selected_targets]),
                            !.j = @ + 1]
             /\ hist' = [hist EXCEPT
                            !.neighbor_calls = @ + 1,
                            !.failures = @ + (IF ok THEN 0 ELSE 1),
                            !.llm_calls = @ + (IF asked THEN 1 ELSE 0),
                            !.prune = IF target_candidates = << >> THEN @
                                      ELSE [kind |-> "entity", candidates |-> target_candidates,
                                            k |-> Width, selected |-> selected_targets,
                                            llm |-> IF asked THEN 1 ELSE 0,
                                            nothing_parsed |->
                                                asked /\ ParseList(response) = << >>]]
             /\ pc' = pc
    /\ clock' = clock + 1
    /\ UNCHANGED <<depth, depth_limit, beam_width, current_paths, result>>
    /\ UNCHANGED connVars /\ UNCHANGED engineVars /\ UNCHANGED callVars
    /\ UNCHANGED parVars

\* the rest of _beam_search_iteration, and reason() up to the sufficiency check
ExtendPaths ==
    /\ pc = "entities"
    /\ frame.j > Len(frame.pairs)
    /\ LET new_paths == NewPaths(frame.paths, frame.exploration_results)
           returned == BeamSearchReturn(new_paths, frame.paths, Width)
       IN /\ current_paths' = returned
          /\ hist' = [hist EXCEPT
                        !.generated = Len(new_paths),
                        !.productive = @ + (IF new_paths # << >> THEN 1 ELSE 0),
                        !.trace = IF stub.fixed THEN Append(@, returned) ELSE @,
                        !.stalled_at = IF @ = 0 /\ new_paths = << >> THEN hist.expansions ELSE @,
                        !.stalled_beam = IF hist.stalled_at = 0 /\ new_paths = << >>
                                         THEN frame.paths ELSE @]
          \* if not current_paths: break
          /\ pc' = IF returned = << >> THEN "answer" ELSE "evaluate"
    /\ frame' = NoFrame
    /\ UNCHANGED <<depth, depth_limit, beam_width, result, clock>>
    /\ UNCHANGED connVars /\ UNCHANGED engineVars /\ UNCHANGED callVars
    /\ UNCHANGED parVars

\* if self._evaluate_sufficiency(question, current_paths): break
AfterVerdictLoop(sufficient) == "for"
AfterVerdict(sufficient) == IF sufficient THEN "answer" ELSE "for"

Evaluate ==
    /\ pc = "evaluate"
    /\ \E response \in IF NothingToJudge(current_paths) THEN {""} ELSE OracleChoices :
         LET asked == ~ NothingToJudge(current_paths)
             sufficient == asked /\ SaysYes(response)
         IN /\ pc' = AfterVerdict(sufficient)
            /\ depth' = IF sufficient THEN depth ELSE depth + 1
            /\ clock' = clock + (IF asked THEN 1 ELSE 0)
            /\ hist' = [hist EXCEPT
                          !.oracle_calls = @ + 1,
                          !.llm_calls = @ + (IF asked THEN 1 ELSE 0),
                          !.sufficient_at = IF sufficient THEN hist.expansions ELSE @,
                          !.sufficient_beam = IF sufficient THEN current_paths ELSE @]
    /\ UNCHANGED <<depth_limit, beam_width, current_paths, frame, result>>
    /\ UNCHANGED connVars /\ UNCHANGED engineVars /\ UNCHANGED callVars
    /\ UNCHANGED parVars

\* "Generate Answer" and the return of reason()
SuccessWhenEmpty(paths) == TRUE
SuccessOf(paths) == paths # << >>

Answer ==
    /\ pc = "answer"
    /\ \E text \in IF current_paths # << >> THEN AnswerChoices ELSE {InsufficientAnswer} :
         LET called == current_paths # << >> IN
         /\ result' = [success |-> SuccessOf(current_paths),
                       answer |-> text,
                       execution_time |-> clock + (IF called THEN 1 ELSE 0),
                       error_message |-> "None"]
         /\ clock' = clock + (IF called THEN 1 ELSE 0)
         /\ hist' = [hist EXCEPT
                       !.synth_calls = @ + (IF called THEN 1 ELSE 0),
                       !.llm_calls = @ + (IF called THEN 1 ELSE 0),
                       !.synth_beam = IF called THEN current_paths ELSE @]
    /\ pc' = "done"
    /\ UNCHANGED <<depth, depth_limit, beam_width, current_paths, frame>>
    /\ UNCHANGED connVars /\ UNCHANGED engineVars /\ UNCHANGED callVars
    /\ UNCHANGED parVars

\* the dict returned by the except branch; e is str(e), elapsed is
\* time.time() - start_time
ErrorResultNoMessage(e, elapsed) ==
    [success |-> FALSE, answer |-> "error: " \o e, execution_time |-> elapsed,
     error_message |-> "None"]
ErrorResult(e, elapsed) ==
    [success |-> FALSE, answer |-> "error: " \o e, execution_time |-> elapsed,
     error_message |-> e]

\* except Exception as e: the error Result
Catch ==
    /\ pc = "except"
    /\ result' = ErrorResult(hist.raised, clock)
    /\ pc' = "done"
    /\ UNCHANGED <<depth, depth_limit, beam_width, current_paths, frame, clock, hist>>
    /\ UNCHANGED connVars /\ UNCHANGED engineVars /\ UNCHANGED callVars
    /\ UNCHANGED parVars

Next ==
    \/ Begin
    \/ ForLoop
    \/ BeamSearchStart
    \/ ExtractTopicEntities
    \/ ExploreRelations
    \/ ExploreRelationsReturn
    \/ ExploreEntities
    \/ ExtendPaths
    \/ Evaluate
    \/ Answer
    \/ Catch

Spec == Init /\ [][Next]_vars

\* reason() is sequential code and every external call returns: a step that
\* can be taken is taken
InitLive == Init /\ store \in {EmptyGraph, ChainGraph, OddGraph}
SpecLive == InitLive /\ [][Next]_vars /\ WF_vars(Next)


(***************************************************************************)
(* Two concurrent reason() calls.  The variables of the engine hold the    *)
(* call that runs; peer holds the call that waits.  The locals of reason() *)
(* and of its callees belong to a call; the store is shared; the fields of *)
(* the engine instance and of its connector are shared when both calls use *)
(* one instance (db_manager.connections hands one connector to every       *)
(* ToGService of a grag_id).  Each call is first run alone, then both are  *)
(* run together under every interleaving of their steps.                   *)
(***************************************************************************)
\* the stubbed collaborators as two different questions meet them
ParStubs ==
    {[fixed |-> TRUE, mentions |-> <<"A">>, oracle |-> "No", select |-> "first"],
     [fixed |-> TRUE, mentions |-> <<"A", "z">>, oracle |-> "Yes", select |-> "none"]}
\* a call: its question (the stubs) and its arguments
ParCalls(engine) ==
    {[stub |-> s, arg_max_depth |-> NoneInt, arg_max_width |-> w] :
        s \in ParStubs, w \in IF engine = "ToGReasoning" THEN {NoneInt, 1} ELSE {NoneInt}}
\* an engine instance: its connector's partition, its width and its depth
ParInstances ==
    {[grag_id |-> g, self_beam_width |-> w, self_max_depth |-> MaxDepth] :
        g \in Partitions, w \in {1, MaxWidth}}
ParGraphs == {ChainGraph, OddGraph}

\* the locals of a call that has not started, and of the running call
FreshLocals ==
    [pc |-> "reason", depth |-> 0, depth_limit |-> 0, beam_width |-> 0,
     current_paths |-> << >>, frame |-> NoFrame, result |-> << >>, clock |-> 0,
     hist |-> NoHist]
Locals ==
    [pc |-> pc, depth |-> depth, depth_limit |-> depth_limit, beam_width |-> beam_width,
     current_paths |-> current_paths, frame |-> frame, result |-> result,
     clock |-> clock, hist |-> hist]
\* the fields of the running call's engine instance
Instance ==
    [grag_id |-> grag_id, self_beam_width |-> self_beam_width,
     self_max_depth |-> self_max_depth]

\* what a caller sees of a Result, and the beam the answer was generated from
OutcomeOf(res, h) ==
    [success |-> res.success, answer |-> res.answer, error |-> res.error_message,
     beam |-> h.synth_beam]
NoOutcome == [success |-> FALSE, answer |-> Null, error |-> Null, beam |-> << >>]

\* the thread of a call gets the processor
Resume(call, locals, inst) ==
    /\ arg_max_depth' = call.arg_max_depth
    /\ arg_max_width' = call.arg_max_width
    /\ stub' = call.stub
    /\ pc' = locals.pc /\ depth' = locals.depth /\ depth_limit' = locals.depth_limit
    /\ beam_width' = locals.beam_width /\ current_paths' = locals.current_paths
    /\ frame' = locals.frame /\ result' = locals.result /\ clock' = locals.clock
    /\ hist' = locals.hist
    /\ grag_id' = inst.grag_id
    /\ self_beam_width' = inst.self_beam_width
    /\ self_max_depth' = inst.self_max_depth

InitPar ==
    /\ store \in ParGraphs
    /\ q = NoQuery
    /\ IdleCalls
    /\ impl \in {"ToGReasoning", "ToGService"}
    /\ retriever \in BOOLEAN
    /\ \E one_instance \in BOOLEAN, i1 \in ParInstances, i2 \in ParInstances :
       \E c1 \in ParCalls(impl), c2 \in ParCalls(impl) :
          /\ one_instance => i1 = i2
          \* two instances differ at most in their partition; the first call
          \* gives no max_width
          /\ i1.self_beam_width = i2.self_beam_width
          /\ c1.arg_max_width = NoneInt
          /\ peer = [phase |-> "alone1", running |-> 1, one_instance |-> one_instance,
                     calls |-> <<c1, c2>>, instances |-> <<i1, i2>>,
                     suspended |-> [locals |-> FreshLocals, instance |-> i2],
                     alone |-> <<NoOutcome, NoOutcome>>, overlapped |-> FALSE]
          /\ stub = c1.stub
          /\ arg_max_depth = c1.arg_max_depth /\ arg_max_width = c1.arg_max_width
          /\ grag_id = i1.grag_id /\ self_beam_width = i1.self_beam_width
          /\ self_max_depth = i1.self_max_depth
    /\ pc = "reason"
    /\ depth = 0 /\ depth_limit = 0 /\ beam_width = 0
    /\ current_paths = << >>
    /\ frame = NoFrame
    /\ result = << >>
    /\ clock = 0
    /\ hist = NoHist

\* a call run alone has returned: its outcome is kept, and the next run
\* starts from the engine instances as they were constructed
NextRun ==
    /\ peer.phase \in {"alone1", "alone2"}
    /\ pc = "done"
    /\ IF peer.phase = "alone1"
       THEN /\ peer' = [peer EXCEPT !.phase = "alone2", !.running = 2,
                                    !.alone[1] = OutcomeOf(result, hist),
                                    !.suspended = [locals |-> FreshLocals,
                                                   instance |-> peer.instances[1]]]
            /\ Resume(peer.calls[2], FreshLocals, peer.instances[2])
       ELSE /\ peer' = [peer EXCEPT !.phase = "together", !.running = 1,
                                    !.alone[2] = OutcomeOf(result, hist),
                                    !.suspended = [locals |-> FreshLocals,
                                                   instance |-> peer.instances[2]]]
            /\ Resume(peer.calls[1], FreshLocals, peer.instances[1])
    /\ UNCHANGED <<store, q, impl, retriever>> /\ UNCHANGED callVars

\* the scheduler takes the processor from the running call and gives it to
\* the waiting one
Switch ==
    /\ peer.phase = "together"
    /\ peer.suspended.locals.pc # "done"
    /\ LET other == 3 - peer.running
           midRun(p) == p \notin {"reason", "done"}
       IN /\ peer' = [peer EXCEPT
                        !.running = other,
                        !.suspended = [locals |-> Locals, instance |-> Instance],
                        !.overlapped = @ \/ (midRun(pc) /\ midRun(peer.suspended.locals.pc))]
          /\ Resume(peer.calls[other], peer.suspended.locals,
                    IF peer.one_instance THEN Instance ELSE peer.suspended.instance)
    /\ UNCHANGED <<store, q, impl, retriever>> /\ UNCHANGED callVars

NextPar ==
    \/ Begin
    \/ ForLoop
    \/ BeamSearchStart
    \/ ExtractTopicEntities
    \/ ExploreRelations
    \/ ExploreRelationsReturn
    \/ ExploreEntities
    \/ ExtendPaths
    \/ Evaluate
    \/ Answer
    \/ Catch
    \/ NextRun
    \/ Switch

SpecPar == InitPar /\ [][NextPar]_vars


(***************************************************************************)
(* Stand-alone calls of the linker: entity_linking(retriever, entities,    *)
(* threshold) and _extract_topic_entities(question)                        *)
(***************************************************************************)
\* the thresholds a caller passes: below, between and above the distances
Thresholds == {entity_linking_threshold + d : d \in {-10, -5, 0, 5, 10}}
\* the entity lists the extraction prompt can give
MentionLists == {ParseList(r) : r \in Responses(Mentions)}

\* kb1 has A and AB, kb2 has Z
LexicalGraph == Graph({K1("A"), K1("AB"), K2("Z")}, {})
LinkGraphs == {EmptyGraph, ForeignGraph, LexicalGraph}

InitLink ==
    /\ store \in LinkGraphs
    /\ grag_id \in Partitions \cup {NoGrag}
    /\ q = NoQuery
    /\ impl \in {"ToGReasoning", "ToGService"}
    /\ retriever \in BOOLEAN
    /\ self_beam_width \in 0..MaxWidth
    /\ self_max_depth = 0
    /\ arg_max_depth = NoneInt /\ arg_max_width = NoneInt
    /\ IdleRun /\ IdleCalls /\ Unpaired

\* the one call of entity_linking(retriever_obj, entities, threshold) that a
\* behaviour looks at
EntityLinkingCall ==
    /\ link = NoLink
    /\ retriever
    /\ \E entities \in MentionLists, threshold \in Thresholds :
       \E hits \in [1..Len(entities) -> Hits] :
          link' = [kind |-> "entity_linking", entities |-> entities, hits |-> hits,
                   threshold |-> threshold,
                   results |-> entity_linking(hits, entities, threshold)]
    /\ UNCHANGED verdict
    /\ UNCHANGED connVars /\ UNCHANGED engineVars /\ UNCHANGED runVars
    /\ UNCHANGED parVars

\* the one call of _extract_topic_entities(question) that a behaviour looks at
ExtractCall ==
    /\ link = NoLink
    /\ \E response \in Responses(Mentions) :
         LET raw_entities == ParseList(response) IN
         \E linkingWorks \in LinkingOutcomes(retriever, raw_entities) :
         \E hits \in IF linkingWorks THEN [1..Len(raw_entities) -> Hits] ELSE {<< >>} :
         \E rounds \in IF linkingWorks THEN {<< >>}
                        ELSE FallbackRounds(store, grag_id, raw_entities) :
            LET linked == IF linkingWorks
                          THEN entity_linking(hits, raw_entities, entity_linking_threshold)
                          ELSE [i \in 1..Len(rounds) |-> rounds[i].appended]
            IN link' = [kind |-> "extract", entities |-> raw_entities,
                        vector |-> linkingWorks, raised |-> retriever /\ ~ linkingWorks,
                        hits |-> hits, rounds |-> rounds, linked |-> linked,
                        results |-> TopicEntities(linked, Width)]
    /\ UNCHANGED verdict
    /\ UNCHANGED connVars /\ UNCHANGED engineVars /\ UNCHANGED runVars
    /\ UNCHANGED parVars

NextLink ==
    \/ EntityLinkingCall
    \/ ExtractCall

SpecLink == InitLink /\ [][NextLink]_vars


(***************************************************************************)
(* Stand-alone calls of the oracle: _evaluate_sufficiency(question, paths) *)
(***************************************************************************)
\* the hops, paths and path lists the oracle is called with
OracleHops == {Hop(Null, Null, "A"), Hop("A", "part_of", "B")}
OraclePaths == UNION { [1..n -> OracleHops] : n \in 0..MaxDepth }
OraclePathLists == UNION { [1..n -> OraclePaths] : n \in 0..MaxWidth }

InitOracle ==
    /\ store = EmptyGraph
    /\ grag_id = "kb1"
    /\ q = NoQuery
    /\ impl \in {"ToGReasoning", "ToGService"}
    /\ retriever = FALSE
    /\ self_beam_width = 0 /\ self_max_depth = 0
    /\ arg_max_depth = NoneInt /\ arg_max_width = NoneInt
    /\ IdleRun /\ IdleCalls /\ Unpaired

\* the one call of _evaluate_sufficiency(question, paths) that a behaviour
\* looks at
OracleCall ==
    /\ verdict = NoVerdict
    /\ \E paths \in OraclePathLists :
       \E response \in IF NothingToJudge(paths) THEN {""} ELSE OracleResponses :
          LET asked == ~ NothingToJudge(paths) IN
          verdict' = [called |-> TRUE, paths |-> paths,
                      llm_calls |-> IF asked THEN 1 ELSE 0,
                      response |-> response,
                      returned |-> asked /\ SaysYes(response)]
    /\ UNCHANGED link
    /\ UNCHANGED connVars /\ UNCHANGED engineVars /\ UNCHANGED runVars
    /\ UNCHANGED parVars

NextOracle == OracleCall

SpecOracle == InitOracle /\ [][NextOracle]_vars


(***************************************************************************)
(* reason() calls of engines constructed with the default beam width       *)
(***************************************************************************)
\* beam_width: int = 3 of ToGReasoning.__init__
DefaultBeamWidth == 3
\* A --[part_of]--> B --[located_in]--> C, one partition
TwoHopGraph ==
    Graph({}, {Edge(K1("A"), "part_of", K1("B"), "kb1"),
               Edge(K1("B"), "located_in", K1("C"), "kb1")})
\* more part_of targets than the default width, one of them with an integer
\* name
WideOddGraph ==
    Graph({}, {Edge(K1("A"), "part_of", K1(t), "kb1") : t \in {"B", "C", "D", NonStrName}})

InitScenario ==
    /\ store \in {TwoHopGraph, WideOddGraph}
    /\ grag_id = "kb1"
    /\ q = NoQuery
    /\ impl \in {"ToGReasoning", "ToGService"}
    /\ retriever \in BOOLEAN
    /\ self_beam_width = DefaultBeamWidth
    /\ self_max_depth = MaxDepth
    /\ IF impl = "ToGReasoning"
       THEN /\ arg_max_depth \in {NoneInt, MaxDepth}
            /\ arg_max_width \in {NoneInt, DefaultBeamWidth}
       ELSE arg_max_depth = NoneInt /\ arg_max_width = NoneInt
    /\ pc = "reason"
    /\ depth = 0 /\ depth_limit = 0 /\ beam_width = 0
    /\ current_paths = << >>
    /\ frame = NoFrame
    /\ result = << >>
    /\ clock = 0
    /\ hist = NoHist
    /\ IdleCalls /\ Unpaired

SpecScenario == InitScenario /\ [][Next]_vars


(***************************************************************************)
(* The two engines on the same question.  ToGService(grag_id, max_depth,   *)
(* max_width).reason(question) runs first; then ToGReasoning, constructed  *)
(* with the same depth and width, runs reason(question, max_depth,         *)
(* max_width) against the same stubbed store, retriever and language       *)
(* model.                                                                  *)
(***************************************************************************)
EqStubs ==
    {[fixed |-> TRUE, mentions |-> m, oracle |-> o, select |-> sel] :
        m \in {<< >>, <<"A">>, <<"A", "z">>}, o \in {"No", "Yes"},
        sel \in {"first", "none"}}

InitEq ==
    /\ store \in {EmptyGraph, ChainGraph, StarGraph, OddGraph}
    /\ grag_id = "kb1"
    /\ q = NoQuery
    /\ IdleCalls
    /\ impl = "ToGService"
    /\ retriever \in BOOLEAN
    /\ stub \in EqStubs
    /\ self_beam_width \in 1..MaxWidth
    /\ self_max_depth \in 0..MaxDepth
    /\ arg_max_depth = NoneInt /\ arg_max_width = NoneInt
    /\ peer = [phase |-> "service", outcome |-> NoOutcome, trace |-> << >>]
    /\ pc = "reason"
    /\ depth = 0 /\ depth_limit = 0 /\ beam_width = 0
    /\ current_paths = << >>
    /\ frame = NoFrame
    /\ result = << >>
    /\ clock = 0
    /\ hist = NoHist

\* ToGService.reason has returned: what it returned and the beams it went
\* through are kept, and ToGReasoning.reason is called
OtherEngine ==
    /\ peer.phase = "service"
    /\ pc = "done"
    /\ peer' = [phase |-> "reasoning", outcome |-> OutcomeOf(result, hist),
                trace |-> hist.trace]
    /\ impl' = "ToGReasoning"
    /\ arg_max_depth' = self_max_depth
    /\ arg_max_width' = self_beam_width
    /\ pc' = "reason"
    /\ depth' = 0 /\ depth_limit' = 0 /\ beam_width' = 0
    /\ current_paths' = << >>
    /\ frame' = NoFrame
    /\ result' = << >>
    /\ clock' = 0
    /\ hist' = NoHist
    /\ UNCHANGED <<retriever, self_beam_width, self_max_depth, stub>>
    /\ UNCHANGED connVars /\ UNCHANGED callVars

NextEq ==
    \/ Begin
    \/ ForLoop
    \/ BeamSearchStart
    \/ ExtractTopicEntities
    \/ ExploreRelations
    \/ ExploreRelationsReturn
    \/ ExploreEntities
    \/ ExtendPaths
    \/ Evaluate
    \/ Answer
    \/ Catch
    \/ OtherEngine

SpecEq == InitEq /\ [][NextEq]_vars


(***************************************************************************)
(* Properties                                                              *)
(***************************************************************************)
Finished == pc = "done"
Iterating == pc \in {"bsi", "extract", "relations", "entities"}

\* C1: no exception leaves reason(), and the Result it returns has both
\* success and execution_time set, whatever the language model and the
\* graph store answered
C1_ReasonNeverRaises ==
    /\ pc # NoHandler
    /\ Finished =>
          /\ {"success", "execution_time"} \subseteq DOMAIN result
          /\ result.success \in BOOLEAN
          /\ result.execution_time \in Nat

\* a TypeError was raised while the entity prompt was built, and reason()
\* still returned a Result
C1_Witness ==
    /\ Finished /\ hist.raised = "TypeError"
    /\ result.success = FALSE /\ result.execution_time > 0

\* C2: the beam an expansion step returns never holds more than beam_width
\* paths: not in the first iteration, not when nothing new was generated
C2_BeamWithinWidth ==
    /\ Len(current_paths) <= Width
    /\ Len(frame.paths) <= Width

\* an iteration generated more paths than the width and returned width of them
C2_Witness ==
    /\ pc = "evaluate" /\ Width >= 1
    /\ hist.generated > Width /\ Len(current_paths) = Width

\* C3: reason() never runs more expansion iterations than max_depth
C3_DepthIsHardCap == hist.expansions <= DepthLimit

\* the oracle said no after every iteration up to max_depth and the engine
\* went on to answer
C3_Witness ==
    /\ Finished /\ DepthLimit = MaxDepth /\ hist.expansions = DepthLimit
    /\ hist.oracle_calls = DepthLimit /\ hist.sufficient_at = 0
    /\ hist.synth_calls = 1

\* C5: the call's own max_depth and max_width are honoured: the iterations
\* stay within max_depth, and the pruners, the seeding and the truncation
\* of the beam use max_width
C5_CallValuesHonored ==
    (pc # "reason") =>
        /\ hist.expansions <= depth_limit
        /\ Len(current_paths) <= beam_width
        /\ Len(frame.paths) <= beam_width
        /\ hist.prune.kind # "none" => hist.prune.k = beam_width

\* C6: an expansion that yields no new path ends the search: no later
\* iteration starts, and the answer is made from the beam that expansion
\* started from
C6_StopsWhenNothingNew ==
    (hist.stalled_at # 0) =>
        /\ hist.expansions = hist.stalled_at
        /\ ~ Iterating
        /\ hist.synth_calls > 0 => hist.synth_beam = hist.stalled_beam

\* C7: once reason() gets to "Generate Answer", an empty beam gives
\* success = false with the fixed text, and success = true is returned only
\* for a non-empty beam that the answer was generated from
C7_EmptyBeamIsFailure ==
    Finished =>
        /\ (result.error_message = "None" /\ current_paths = << >>) =>
              (result.success = FALSE /\ result.answer = InsufficientAnswer)
        /\ result.success = TRUE =>
              /\ current_paths # << >>
              /\ hist.synth_calls = 1
              /\ hist.synth_beam = current_paths

\* the language model named no entity: an empty beam after one iteration
C7_Witness ==
    /\ Finished /\ hist.expansions = 1 /\ current_paths = << >>
    /\ result.success = FALSE /\ result.answer = InsufficientAnswer
    /\ hist.synth_calls = 0

\* C8: a mention without lexical or vector match, in an empty graph, ends
\* in success = false with the fixed text
C8_TotalFailure ==
    (Finished /\ store = EmptyGraph /\ hist.unmatched) =>
        (result.success = FALSE /\ result.answer = InsufficientAnswer)

\* C9: a beam the oracle judged sufficient is the beam that is answered from,
\* with no further iteration in between
C9_SufficientGoesToAnswer ==
    (hist.sufficient_at # 0) =>
        /\ pc \in {"answer", "done"}
        /\ hist.expansions = hist.sufficient_at
        /\ current_paths = hist.sufficient_beam
        /\ Finished => (hist.synth_calls = 1 /\ hist.synth_beam = hist.sufficient_beam)

\* the oracle said yes after the first of two allowed iterations
C9_Witness ==
    /\ Finished /\ DepthLimit = 2 /\ hist.sufficient_at = 1 /\ hist.expansions = 1
    /\ result.success = TRUE

\* C10: candidates that fit within the width are all selected, as they are,
\* and the language model is not asked
C10_PrunerShortCircuit ==
    (hist.prune.kind # "none" /\ Len(hist.prune.candidates) <= hist.prune.k) =>
        /\ hist.prune.selected = hist.prune.candidates
        /\ hist.prune.llm = 0

\* two candidate target entities, width two
C10_Witness ==
    /\ hist.prune.kind = "entity"
    /\ Len(hist.prune.candidates) = 2 /\ hist.prune.k = 2
    /\ hist.prune.selected = hist.prune.candidates /\ hist.prune.llm = 0

\* C11: when a pruner asked the language model about more than k candidates
\* and the response is empty or has nothing to parse, the pruner selects the
\* first k candidates in their original order
C11_PrunerFallback ==
    (/\ hist.prune.kind # "none"
     /\ Len(hist.prune.candidates) > hist.prune.k
     /\ hist.prune.nothing_parsed) =>
        hist.prune.selected = Take(hist.prune.candidates, hist.prune.k)

\* C12: a mention whose nearest indexed name lies within the threshold is
\* linked to that name; a mention whose nearest name lies beyond the
\* threshold is returned as it is
C12_ThresholdDecides ==
    (/\ link.kind = "entity_linking"
     /\ \A i \in 1..Len(link.hits) : link.hits[i].found) =>
        /\ Len(link.results) = Len(link.entities)
        /\ \A i \in 1..Len(link.entities) :
              link.results[i] = IF link.hits[i].score <= link.threshold
                                THEN link.hits[i].name
                                ELSE link.entities[i]

\* the name each mention of the last linker call produced, if any
Produced ==
    IF link.kind = "extract" /\ ~ link.vector
    THEN [i \in 1..Len(link.entities) |-> [found |-> TRUE, name |-> link.rounds[i].appended]]
    ELSE [i \in 1..Len(link.entities) |->
             [found |-> link.hits[i].found, name |-> link.hits[i].name]]

\* names is made of names that mentions produced, in the order of those mentions
InMentionOrder(names) ==
    \E f \in [1..Len(names) -> 1..Len(link.entities)] :
       /\ \A a, b \in 1..Len(names) : a < b => f[a] < f[b]
       /\ \A a \in 1..Len(names) : Produced[f[a]].found /\ names[a] = Produced[f[a]].name

\* C13: whatever the threshold and the mentions, the linker returns at most
\* one name per mention, in the order of the mentions that produced them,
\* each name once (the caller of entity_linking removes the duplicates),
\* and the empty list, without an exception, for no mention
C13_LinkerOutputShape ==
    /\ link.kind = "entity_linking" =>
          /\ Len(link.results) <= Len(link.entities)
          /\ InMentionOrder(link.results)
          /\ link.entities = << >> => link.results = << >>
    /\ link.kind = "extract" =>
          /\ Len(link.results) <= Len(link.entities)
          /\ InMentionOrder(link.results)
          /\ \A a, b \in 1..Len(link.results) : link.results[a] = link.results[b] => a = b
          /\ link.entities = << >> => (link.results = << >> /\ ~ link.raised)

\* two different mentions are linked to the same indexed name, which is
\* returned once
C13_Witness ==
    /\ link.kind = "extract" /\ link.vector /\ Width = 2
    /\ link.entities = <<"z", "A">>
    /\ link.hits[1].found /\ link.hits[1].name = "A"
    /\ link.hits[2].found /\ link.hits[2].name = "A"
    /\ link.results = <<"A">>

\* the connector's partition has a node of that name
NodeInPartition(name) == \E n \in store.nodes : n.name = name /\ n.grag_id = grag_id

\* C14: without a usable vector index (no retriever, or the linking call
\* raised) the topic entities come from lexical matching: one lookup round
\* per mention, the fuzzy search made only when the exact search found
\* nothing, a mention that names a node of the partition resolved to that
\* node, and every matched name the name of a node of the connector's own
\* partition that contains the mention
C14_LexicalFallback ==
    (link.kind = "extract") =>
        /\ (~ retriever \/ link.raised) => ~ link.vector
        /\ ~ link.vector =>
              /\ Len(link.rounds) = Len(link.entities)
              /\ \A i \in 1..Len(link.entities) :
                    LET r == link.rounds[i] IN
                    /\ r.entity = link.entities[i]
                    /\ r.fuzzy_called <=> ~ r.exact_found
                    /\ (r.exact_ok /\ grag_id # NoGrag /\ NodeInPartition(r.entity))
                          => r.appended = r.entity
                    /\ \/ r.appended = r.entity
                       \/ /\ NodeInPartition(r.appended)
                          /\ ContainsIgnoreCase(r.appended, r.entity)
              /\ link.results =
                    Take(Dedupe([i \in 1..Len(link.rounds) |-> link.rounds[i].appended]), Width)

\* the linking call raised; "A" names a node although "AB" contains it as
\* well, and "z" matches nothing in kb1 (Z is a node of kb2)
C14_Witness ==
    /\ link.kind = "extract" /\ link.raised /\ ~ link.vector
    /\ store = LexicalGraph /\ grag_id = "kb1" /\ Width = 2
    /\ link.entities = <<"A", "z">>
    /\ link.rounds[1].exact_found /\ ~ link.rounds[1].fuzzy_called
    /\ link.rounds[2].fuzzy_called /\ ~ link.rounds[2].fuzzy_found
    /\ link.results = <<"A", "z">>

\* C15: a mention that resolves to nothing usable (no search result in the
\* vector index; no exact and no fuzzy match in the graph) is carried
\* forward as it is into the topic-entity candidates
C15_MissKeepsMention ==
    (link.kind = "extract") =>
        \A i \in 1..Len(link.entities) :
           (IF link.vector THEN ~ link.hits[i].found
            ELSE ~ link.rounds[i].exact_found /\ ~ link.rounds[i].fuzzy_found)
              => link.entities[i] \in Range(link.linked)

\* the connector's partition has no node of that name, or no edge of the
\* partition joins such a node to a node of the partition
EmptyNeighborhood(entity) ==
    ~ \E n \in store.nodes, e \in store.edges :
         /\ n.name = entity /\ n.grag_id = grag_id
         /\ n \in Ends(e) /\ e.grag_id = grag_id /\ Other(e, n).grag_id = grag_id

\* C16: an entity with an empty neighbourhood gets the empty relation list
\* and no exploration result, no new path extends it, and reason() is not
\* aborted because of it
C16_EmptyNeighborhoodIsNoError ==
    /\ pc \in {"relations", "entities"} =>
          \A i \in 1..Len(frame.tails) :
             (i < frame.i /\ EmptyNeighborhood(frame.tails[i])) =>
                /\ \E k \in 1..Len(frame.entity_relations) :
                      frame.entity_relations[k] =
                          [entity |-> frame.tails[i], relations |-> << >>]
                /\ \A k \in 1..Len(frame.pairs) : frame.pairs[k].source # frame.tails[i]
                /\ \A k \in 1..Len(frame.exploration_results) :
                      frame.exploration_results[k].source # frame.tails[i]
    /\ (pc = "evaluate" /\ hist.generated > 0) =>
          \A k \in 1..Len(current_paths) :
             ~ EmptyNeighborhood(current_paths[k][Len(current_paths[k])].source)
    /\ pc = ExceptionHandler =>
          \E i \in 1..Len(frame.tails) : ~ EmptyNeighborhood(frame.tails[i])

\* the beam was seeded with A and z; z names no node, its query succeeded
\* with no row, and the iteration returned the one path that extends A
C16_Witness ==
    /\ pc = "evaluate" /\ store = ChainGraph /\ hist.expansions = 1
    /\ hist.neighbor_calls = 3 /\ hist.failures = 0 /\ hist.generated = 1
    /\ EmptyNeighborhood("z")
    /\ current_paths = <<<<Hop(Null, Null, "A"), Hop("A", "part_of", "B")>>>>

\* C17: for no path, or only empty paths, the oracle returns false and
\* makes no language-model call
C17_OracleShortCircuit ==
    (/\ verdict.called
     /\ \/ Len(verdict.paths) = 0
        \/ \A i \in 1..Len(verdict.paths) : Len(verdict.paths[i]) = 0) =>
        (verdict.returned = FALSE /\ verdict.llm_calls = 0)

\* two paths, both empty
C17_Witness ==
    /\ verdict.called /\ verdict.paths = << << >>, << >> >>
    /\ verdict.returned = FALSE /\ verdict.llm_calls = 0

\* the responses of OracleResponses that hold "yes" in some letter case
ResponsesHoldingYes == {"Yes", "YES.", "eyes"}

\* C18: for a path list with a non-empty path the oracle makes one
\* language-model call and returns true exactly when the response holds
\* "yes" in any letter case; the empty text of a failed call gives false
C18_OracleFailsClosed ==
    (/\ verdict.called
     /\ \E i \in 1..Len(verdict.paths) : Len(verdict.paths[i]) > 0) =>
        /\ verdict.llm_calls = 1
        /\ verdict.returned <=> verdict.response \in ResponsesHoldingYes
        /\ verdict.response = "" => verdict.returned = FALSE

\* the response "YES." for one path of two hops
C18_Witness ==
    /\ verdict.called /\ verdict.response = "YES." /\ verdict.returned = TRUE
    /\ verdict.paths = <<<<Hop(Null, Null, "A"), Hop("A", "part_of", "B")>>>>

\* C19: an exception raised inside reason() ends in a Result with
\* success = false, the exception's message as error and the execution time
\* recorded; a Result of a run without exception has no error
C19_ExceptionBecomesResult ==
    /\ pc = ExceptionHandler => hist.raised # "None"
    /\ Finished =>
          /\ hist.raised # "None" =>
                /\ result.success = FALSE
                /\ result.error_message = hist.raised
                /\ result.execution_time = clock
          /\ hist.raised = "None" => result.error_message = "None"

\* ToGService met the integer name while it built the entity prompt
C19_Witness ==
    /\ Finished /\ impl = "ToGService" /\ store = OddGraph
    /\ hist.raised = "TypeError" /\ result.error_message = "TypeError"
    /\ result.success = FALSE /\ result.answer = "error: TypeError"

\* C20: of two reason() calls that run concurrently, each returns the
\* success, answer and error it returned when it ran alone against the same
\* stubbed graph, retriever and language model, whatever the interleaving;
\* no step of a call changes the store or a field of an engine instance
C20_ConcurrentCallsIndependent ==
    (peer.phase = "together") =>
        /\ pc = "done" => OutcomeOf(result, hist) = peer.alone[peer.running]
        /\ peer.suspended.locals.pc = "done" =>
              OutcomeOf(peer.suspended.locals.result, peer.suspended.locals.hist)
                  = peer.alone[3 - peer.running]
        /\ Instance = peer.instances[peer.running]
        /\ peer.suspended.instance = peer.instances[3 - peer.running]

\* two calls on one ToGReasoning instance, with different questions and
\* different max_width, were both in the middle of an iteration at the same
\* time and have both returned
C20_Witness ==
    /\ peer.phase = "together" /\ peer.one_instance /\ peer.overlapped
    /\ impl = "ToGReasoning" /\ store = ChainGraph /\ grag_id = "kb1"
    /\ peer.calls[1].stub # peer.calls[2].stub
    /\ peer.calls[1].arg_max_width # peer.calls[2].arg_max_width
    /\ pc = "done" /\ peer.suspended.locals.pc = "done"
    /\ result.success = TRUE /\ peer.suspended.locals.result.success = TRUE

\* C22: for a traversal depth of two or more, every row comes from a trail
\* that stays inside the connector's partition: its start node, every
\* relationship, every intermediate node and its end node carry the grag_id
C22_MultiHopScoped ==
    (q.asked /\ grag_id \in Partitions /\ q.depth >= 2) =>
        \A i \in 1..Len(q.rows) :
           \E n \in store.nodes :
              /\ n.name = q.entity_name /\ n.grag_id = grag_id
              /\ \E t \in Trails(store.edges, n, q.depth) :
                    /\ t[1].edge.rel = q.rows[i].relation
                    /\ TrailEnd(t, n).name = q.rows[i].target_entity
                    /\ \A k \in 1..Len(t) :
                          t[k].edge.grag_id = grag_id /\ t[k].node.grag_id = grag_id

\* a path starts with a bare topic entity and every later hop starts where
\* the hop before it ended
WellChained(path) ==
    /\ Len(path) >= 1
    /\ path[1].source = Null /\ path[1].relation = Null /\ path[1].target # Null
    /\ \A i \in 1..(Len(path) - 1) :
          /\ path[i + 1].source = path[i].target
          /\ path[i + 1].relation # Null

\* C23: every path of every beam (the beam reason() holds and the beam an
\* iteration works on) is well-chained
C23_PathsWellChained ==
    /\ \A i \in 1..Len(current_paths) : WellChained(current_paths[i])
    /\ \A i \in 1..Len(frame.paths) : WellChained(frame.paths[i])

\* a beam of two paths that were seeded with different topic entities and
\* extended by the results of their own tails
C23_Witness ==
    /\ pc = "evaluate" /\ store = ChainGraph /\ Len(current_paths) = 2
    /\ Len(current_paths[1]) = 2 /\ Len(current_paths[2]) = 2
    /\ current_paths[1][1].target = "A" /\ current_paths[1][2].source = "A"
    /\ current_paths[2][1].target = "B" /\ current_paths[2][2].source = "B"

\* C24 as stated: after the expansion iteration at depth d, every path of
\* the beam has d hops, the seed hop counted
C24_LengthIsDepth ==
    (pc = "evaluate") =>
        \A i \in 1..Len(current_paths) : Len(current_paths[i]) = hist.expansions

\* C24 amended: the first iteration seeds the beam and extends it, so the
\* paths of a beam all have the same length, the seed hop and one hop for
\* every iteration so far that generated a new path: d + 1 after iteration d
\* when every iteration did, and less when one returned its beam unchanged
C24_LengthFollowsGrowth ==
    /\ \A i \in 1..Len(current_paths) : Len(current_paths[i]) = hist.productive + 1
    /\ hist.productive <= hist.expansions
    /\ (pc = "evaluate" /\ hist.stalled_at = 0) => hist.productive = hist.expansions

\* the first iteration returned the seeded beam (the neighbour query failed),
\* the second one extended it
C24_Witness ==
    /\ pc = "evaluate" /\ hist.expansions = 2 /\ hist.stalled_at = 1
    /\ hist.productive = 1 /\ hist.failures = 1
    /\ Len(current_paths) >= 1 /\ Len(current_paths[1]) = 2

\* The candidates of one expansion step, stated without the loops that build
\* them: a candidate is given by a path of the beam, an exploration result
\* whose source is the tail of that path, and a target of that result
GenerationIndex(paths, results) ==
    UNION { UNION { {<<i, j, t>> : t \in 1..Len(results[j].targets)} :
                    j \in {x \in 1..Len(results) :
                             results[x].source = paths[i][Len(paths[i])].target} } :
            i \in 1..Len(paths) }
\* generation order: by path, then by result, then by target
GeneratedBefore(a, b) ==
    \/ a[1] < b[1]
    \/ a[1] = b[1] /\ a[2] < b[2]
    \/ a[1] = b[1] /\ a[2] = b[2] /\ a[3] < b[3]
CandidateAt(paths, results, x) ==
    Append(paths[x[1]], Hop(results[x[2]].source, results[x[2]].relation,
                            results[x[2]].targets[x[3]]))
\* the first k candidates in generation order
FirstCandidates(paths, results, k) ==
    LET S == GenerationIndex(paths, results)
        nth(m) == CHOOSE x \in S : Cardinality({y \in S : GeneratedBefore(y, x)}) = m - 1
    IN [m \in 1..Min(Cardinality(S), k) |-> CandidateAt(paths, results, nth(m))]

\* the step that ends _beam_search_iteration
IterationReturns == pc = "entities" /\ pc' \in {"evaluate", "answer"}

\* C25 as stated: the beam an expansion step returns is the first beam_width
\* candidates in generation order, whatever the number of candidates
C25_BeamIsCandidatePrefix ==
    [][IterationReturns =>
          current_paths' = FirstCandidates(frame.paths, frame.exploration_results, Width)]_vars

\* C25 amended: the same when there is a candidate; when there is none the
\* step returns the beam it started from
C25_BeamIsCandidatePrefixOrOldBeam ==
    [][IterationReturns =>
          current_paths' =
              IF GenerationIndex(frame.paths, frame.exploration_results) # {}
              THEN FirstCandidates(frame.paths, frame.exploration_results, Width)
              ELSE frame.paths]_vars

\* three candidates were generated from A (two part_of targets, then one
\* located_in target) and the first two of them are the beam
C25_Witness ==
    /\ pc = "evaluate" /\ store = StarGraph /\ Width = 2 /\ hist.generated = 3
    /\ current_paths = << <<Hop(Null, Null, "A"), Hop("A", "part_of", "B")>>,
                          <<Hop(Null, Null, "A"), Hop("A", "part_of", "C")>> >>

\* the neighbour query for the hop's source has the hop among its rows
ReturnedByProvider(hop) ==
    \E mt \in NeighborMatches(store, [entity_name |-> hop.source, grag_id |-> grag_id], 1) :
       /\ NeighborRow(mt).relation = hop.relation
       /\ NeighborRow(mt).target_entity = hop.target

\* C26: whatever the language model answers to the pruning prompts, every
\* hop with a relation on a path of the beam is a row the neighbour query
\* returns for the hop's source in the connector's partition
C26_HopsComeFromTheGraph ==
    \A i \in 1..Len(current_paths) : \A h \in 1..Len(current_paths[i]) :
       current_paths[i][h].relation # Null => ReturnedByProvider(current_paths[i][h])

\* C27: no path of the beam has the same entity as the target of two of its
\* hops (the seed hop included): an expansion never steps back to an entity
\* the path has been at
C27_NoEntityTwiceOnAPath ==
    \A i \in 1..Len(current_paths) :
       \A a, b \in 1..Len(current_paths[i]) :
          current_paths[i][a].target = current_paths[i][b].target => a = b

\* C28: within one reason() call the topic entities are extracted at most
\* once, in the first iteration; the sufficiency oracle is consulted once
\* after each iteration that came before the running one, and not before the
\* running one has returned; the answer is generated at most once, as the
\* last step, and not at all from an empty beam
C28_OrderOfOracleCalls ==
    /\ hist.extractions <= 1
    /\ pc = "extract" => (hist.expansions = 1 /\ hist.extractions = 0)
    /\ hist.extractions = 1 => hist.expansions >= 1
    /\ hist.oracle_calls <= hist.expansions
    /\ (Iterating \/ pc = "evaluate") => hist.oracle_calls = hist.expansions - 1
    /\ hist.synth_calls <= 1
    /\ hist.synth_calls = 1 => (Finished /\ current_paths # << >>)
    /\ (Finished /\ current_paths = << >>) => hist.synth_calls = 0

\* two iterations: one extraction, the oracle after each iteration, and the
\* answer after its second verdict
C28_Witness ==
    /\ Finished /\ hist.expansions = 2 /\ hist.extractions = 1
    /\ hist.oracle_calls = 2 /\ hist.sufficient_at = 2 /\ hist.synth_calls = 1

\* C29: whatever the depth, the width and the responses of the language
\* model and of the store, reason() reaches its return
C29_ReasonTerminates == <>Finished

\* both iterations returned the seeded beam unchanged, and reason() returned
C29_Witness ==
    /\ Finished /\ hist.expansions = 2 /\ hist.productive = 0
    /\ hist.stalled_at = 1 /\ current_paths # << >> /\ result.success = TRUE

\* the path A -> part_of -> B -> located_in -> C
TwoHopPath ==
    <<Hop(Null, Null, "A"), Hop("A", "part_of", "B"), Hop("B", "located_in", "C")>>

\* C21: on the graph A --part_of--> B --located_in--> C, with width 3, the
\* beam seeded with A, no failing query, and the oracle saying no after the
\* first iteration and yes after the second, the beam after the second
\* iteration holds the path A -> part_of -> B -> located_in -> C, and the
\* Result has success = true
C21_TwoHopChain ==
    (/\ store = TwoHopGraph /\ Width = 3
     /\ hist.sufficient_at = 2 /\ hist.failures = 0
     /\ \A i \in 1..Len(current_paths) : current_paths[i][1].target = "A") =>
        /\ hist.expansions = 2 /\ hist.oracle_calls = 2
        /\ \E i \in 1..Len(current_paths) : current_paths[i] = TwoHopPath
        /\ Finished => (result.success = TRUE /\ hist.synth_beam = current_paths)

\* the scenario has run to its end
C21_Witness ==
    /\ Finished /\ store = TwoHopGraph /\ Width = 3 /\ DepthLimit = 2
    /\ hist.sufficient_at = 2 /\ hist.failures = 0 /\ hist.extractions = 1
    /\ \E i \in 1..Len(current_paths) : current_paths[i] = TwoHopPath
    /\ result.success = TRUE

\* C30: for the same question, depth and width and the same stubbed store,
\* retriever and language model, ToGReasoning.reason goes through the beams
\* ToGService.reason went through, one iteration after the other, and
\* returns the same success flag, answer and error
C30_EnginesEquivalent ==
    (peer.phase = "reasoning") =>
        /\ Len(hist.trace) <= Len(peer.trace)
        /\ \A i \in 1..Len(hist.trace) : hist.trace[i] = peer.trace[i]
        /\ Finished =>
              /\ hist.trace = peer.trace
              /\ OutcomeOf(result, hist) = peer.outcome

\* both engines went through two iterations on the chain and answered
C30_Witness ==
    /\ peer.phase = "reasoning" /\ Finished /\ store = ChainGraph
    /\ Len(peer.trace) = 2 /\ Len(hist.trace) = 2
    /\ Len(hist.trace[2][1]) = 3
    /\ result.success = TRUE /\ peer.outcome.success = TRUE

====
